---- MODULE Spec2Model ----
(***************************************************************************)
(* Model of the Mystery Escape Room game (src/main.py): the Game class     *)
(* (grid construction, move, describe_current, print_map, status) and the  *)
(* command loop of main().                                                 *)
(*                                                                         *)
(* Text is modelled as TLA+ strings built with \o; a text of several lines *)
(* ('\n'.join(...)) is the sequence of its lines.  A direction token or a  *)
(* command word is the sequence of its characters, so that str.lower()     *)
(* is computed character by character.                                     *)
(***************************************************************************)
EXTENDS Integers, Sequences, FiniteSets, TLC

VARIABLES size, map, player_x, player_y, health, exit, turn, pc, out, args

vars == <<size, map, player_x, player_y, health, exit, turn, pc, out, args>>

\* The Game object's fields (everything but the caller's position, the last
\* returned text and the arguments of the last direction_hint call).
game == <<size, map, player_x, player_y, health, exit, turn>>

(***************************************************************************)
(* Bounds of the model.                                                    *)
(***************************************************************************)
\* Moves are accepted only while turn < MaxTurn.
MaxTurn == 3
\* Game(size) is constructed for every size in 2..MaxSize.
MaxSize == 3

(***************************************************************************)
(* Program constants.                                                      *)
(***************************************************************************)
\* Game.__init__(self, size=3); main() constructs Game(size=3).
DefaultSize == 3
\* self.health = 5
StartHealth == 5
\* random.randint(1, 3)
MinDamage == 1
MaxDamage == 3

npc_names == <<"Pak Joko", "Mbak Sari", "Kakek Tua">>
ghost_names == <<"Hantu Kecil", "Bayangan">>

\* ASCII['npc'], ASCII['ghost']
ASCII == [npc |-> "(^_^)", ghost |-> "(~_~)"]

(***************************************************************************)
(* Characters and rooms.                                                   *)
(***************************************************************************)
\* Room.character = None
None == [name |-> "", kind |-> "none", message |-> ""]

\* Character(name, kind, message)
Character(name, kind, message) ==
    [name |-> name, kind |-> kind, message |-> message]

\* Character.icon
icon(ch) == IF ch.kind = "npc" THEN ASCII.npc ELSE ASCII.ghost

\* ' '.join(parts)
RECURSIVE JoinSpace(_)
JoinSpace(parts) ==
    IF Len(parts) = 0 THEN ""
    ELSE IF Len(parts) = 1 THEN parts[1]
    ELSE parts[1] \o " " \o JoinSpace(Tail(parts))

\* A variant that lists the horizontal term before the vertical one.
hint_parts_HorizontalFirst(from_pos, to_pos) ==
    LET dx == to_pos[1] - from_pos[1]
        dy == to_pos[2] - from_pos[2]
        vert == IF dy < 0 THEN <<"utara">>
                ELSE IF dy > 0 THEN <<"selatan">> ELSE <<>>
        horiz == IF dx < 0 THEN <<"barat">>
                 ELSE IF dx > 0 THEN <<"timur">> ELSE <<>>
    IN  horiz \o vert

\* The parts list direction_hint builds before joining it.
hint_parts(from_pos, to_pos) ==
    LET dx == to_pos[1] - from_pos[1]
        dy == to_pos[2] - from_pos[2]
        vert == IF dy < 0 THEN <<"utara">>
                ELSE IF dy > 0 THEN <<"selatan">> ELSE <<>>
        horiz == IF dx < 0 THEN <<"barat">>
                 ELSE IF dx > 0 THEN <<"timur">> ELSE <<>>
    IN  vert \o horiz

\* Game.direction_hint: ' '.join(parts) or 'di sekitar sini'
direction_hint(from_pos, to_pos) ==
    LET joined == JoinSpace(hint_parts(from_pos, to_pos))
    IN  IF joined = "" THEN "di sekitar sini" ELSE joined

(***************************************************************************)
(* Construction.                                                           *)
(***************************************************************************)
\* The player start of Game.__init__: (size // 2, size // 2)
StartPos(s) == <<s \div 2, s \div 2>>

\* All coordinates (x, y) of the grid.
Cells(s) == {<<x, y>> : x \in 0..(s - 1), y \in 0..(s - 1)}

\* The perimeter list of place_exit.
Perimeter(s) ==
    {c \in Cells(s) : c[1] = 0 \/ c[2] = 0 \/ c[1] = s - 1 \/ c[2] = s - 1}

\* Mutant of place_exit: the start cell is not taken out of the choices.
place_exit_AnyPerimeter(s) == Perimeter(s)

\* Game.place_exit: the values random.choice(choices) can return.
place_exit(s) == {c \in Perimeter(s) : c # StartPos(s)}

\* A variant that leaves the exit in the list.
Positions_KeepExit(s, e) == Cells(s) \ {StartPos(s)}

\* A variant that leaves the player start in the list.
Positions_KeepStart(s, e) == Cells(s) \ {e}

\* The positions list of place_characters before the shuffle.
Positions(s, e) == (Cells(s) \ {StartPos(s)}) \ {e}

\* Number of names in npc_names followed by ghost_names.
NumNames == Len(npc_names) + Len(ghost_names)

\* How many positions.pop() calls place_characters makes.
NumPlaced(s, e) ==
    IF Cardinality(Positions(s, e)) < NumNames
    THEN Cardinality(Positions(s, e)) ELSE NumNames

\* The sequences of k distinct coordinates that k successive positions.pop()
\* calls can return after random.shuffle(positions).
Pops(S, k) ==
    {f \in [1..k -> S] : \A i \in 1..k : \A j \in (i + 1)..k : f[i] # f[j]}

\* The largest grid any specification below constructs.
GridMax == IF MaxSize > DefaultSize THEN MaxSize ELSE DefaultSize

\* msg = f"Petunjuk: arah keluar kira-kira ke {dir_hint}." with
\* dir_hint = self.direction_hint((x, y), self.exit), tabulated for every
\* coordinate and every exit.
GuideMessage ==
    [pos \in Cells(GridMax), e \in Cells(GridMax) |->
        "Petunjuk: arah keluar kira-kira ke " \o direction_hint(pos, e) \o "."]

\* A variant whose hint points from the exit to the guide.
PlacedCharacter_HintReversed(i, pos, e) ==
    IF i <= Len(npc_names)
    THEN Character(npc_names[i], "npc", GuideMessage[e, pos])
    ELSE Character(ghost_names[i - Len(npc_names)], "ghost",
                   "Sebuah hawa dingin menyentuhmu...")

\* The character that the i-th pop places at coordinate pos.
PlacedCharacter(i, pos, e) ==
    IF i <= Len(npc_names)
    THEN Character(npc_names[i], "npc", GuideMessage[pos, e])
    ELSE Character(ghost_names[i - Len(npc_names)], "ghost",
                   "Sebuah hawa dingin menyentuhmu...")

\* The map of Game.__init__ before place_characters runs: rows indexed by y,
\* then x, every room without a character.
EmptyMap(s) == [y \in 0..(s - 1) |-> [x \in 0..(s - 1) |-> None]]

\* The assignments self.map[y][x].character = Character(...) for the i-th
\* and the later pops, in order.
RECURSIVE PlaceFrom(_, _, _, _)
PlaceFrom(m, i, e, popped) ==
    IF i > Len(popped) THEN m
    ELSE PlaceFrom([m EXCEPT ![popped[i][2]][popped[i][1]] =
                                 PlacedCharacter(i, popped[i], e)],
                   i + 1, e, popped)

\* Game.place_characters: the map after the characters were placed at the
\* popped coordinates.
place_characters(s, e, popped) == PlaceFrom(EmptyMap(s), 1, e, popped)

\* Game.__init__: the fields of a new game.
NewGame(s, e, popped) ==
    /\ size' = s
    /\ map' = place_characters(s, e, popped)
    /\ player_x' = StartPos(s)[1]
    /\ player_y' = StartPos(s)[2]
    /\ health' = StartHealth
    /\ exit' = e
    /\ turn' = 0

\* Before Game(size) runs, no field holds a value yet.
Unbuilt(s) ==
    /\ size = s
    /\ map = <<>>
    /\ player_x = 0
    /\ player_y = 0
    /\ health = 0
    /\ exit = <<>>
    /\ turn = 0
    /\ pc = "new"
    /\ out = <<>>
    /\ args = <<>>

\* Row-major rank of a coordinate.
Rank(s, c) == c[2] * s + c[1]

\* A shuffle outcome in which, within the guides and within the hazards, the
\* popped coordinates come in row-major order.  Every outcome is one of these
\* up to exchanging names within a kind; the code reads a name only to print
\* it.
NameOrdered(s, popped) ==
    \A i, j \in 1..Len(popped) :
        (i < j /\ (i <= Len(npc_names)) = (j <= Len(npc_names)))
            => Rank(s, popped[i]) < Rank(s, popped[j])

\* Game(size): __init__ with every outcome of random.choice and
\* random.shuffle (every outcome up to the order of names when by_kind); the
\* caller continues at next_pc.
Construct(next_pc, by_kind) ==
    /\ pc = "new"
    /\ \E e \in place_exit(size) :
         \E popped \in Pops(Positions(size, e), NumPlaced(size, e)) :
            /\ by_kind => NameOrdered(size, popped)
            /\ NewGame(size, e, popped)
    /\ pc' = next_pc
    /\ out' = <<>>
    /\ UNCHANGED args

(***************************************************************************)
(* Direction tokens and str.lower().                                       *)
(***************************************************************************)
UpperCase == <<"A", "B", "C", "D", "E", "F", "G", "H", "I", "J", "K", "L", "M",
               "N", "O", "P", "Q", "R", "S", "T", "U", "V", "W", "X", "Y", "Z">>
LowerCase == <<"a", "b", "c", "d", "e", "f", "g", "h", "i", "j", "k", "l", "m",
               "n", "o", "p", "q", "r", "s", "t", "u", "v", "w", "x", "y", "z">>

\* The lower-case letter of every upper-case letter.
RECURSIVE CaseTable(_)
CaseTable(n) ==
    IF n = 1 THEN UpperCase[1] :> LowerCase[1]
    ELSE (UpperCase[n] :> LowerCase[n]) @@ CaseTable(n - 1)
ToLower == CaseTable(Len(UpperCase))

\* str.lower() on one character.
LowerChar(c) == IF c \in DOMAIN ToLower THEN ToLower[c] ELSE c

\* str.lower()
RECURSIVE Lower(_)
Lower(word) ==
    IF Len(word) = 0 THEN <<>>
    ELSE <<LowerChar(Head(word))>> \o Lower(Tail(word))

w_utara == <<"u", "t", "a", "r", "a">>
w_selatan == <<"s", "e", "l", "a", "t", "a", "n">>
w_barat == <<"b", "a", "r", "a", "t">>
w_timur == <<"t", "i", "m", "u", "r">>

\* Game.DIRS
DIRS ==
    (w_utara :> <<0, -1>>) @@ (<<"u">> :> <<0, -1>>) @@ (<<"n">> :> <<0, -1>>) @@
    (w_selatan :> <<0, 1>>) @@ (<<"s">> :> <<0, 1>>) @@
    (w_barat :> <<-1, 0>>) @@ (<<"b">> :> <<-1, 0>>) @@ (<<"w">> :> <<-1, 0>>) @@
    (w_timur :> <<1, 0>>) @@ (<<"t">> :> <<1, 0>>) @@ (<<"e">> :> <<1, 0>>)

\* The direction tokens callers pass to move: every key of DIRS, some
\* upper-case and mixed-case spellings, and tokens that are no direction.
CaseVariants == {<<"U", "t", "A", "R", "a">>, <<"W">>}
BadTokens == {<<"x">>, <<"n", "o", "r", "t", "h">>}
Tokens == DOMAIN DIRS \cup CaseVariants \cup BadTokens \cup {<<>>}

(***************************************************************************)
(* The Game methods.                                                       *)
(***************************************************************************)
\* Game.in_bounds
in_bounds(x, y) == 0 <= x /\ x < size /\ 0 <= y /\ y < size

\* Mutant of is_alive: health 0 still counts as alive.
is_alive_Inclusive == health >= 0

\* Game.is_alive
is_alive == health > 0

\* Mutant of is_exit: only the x coordinate is compared.
is_exit_XOnly == player_x = exit[1]

\* Game.is_exit
is_exit == <<player_x, player_y>> = exit

\* Game.status
status ==
    "Nyawa: " \o ToString(health) \o " | Posisi: (" \o ToString(player_x)
        \o "," \o ToString(player_y) \o ") | Giliran: " \o ToString(turn)

\* Mutant of DamageRolls: random.randint(0, 3).
DamageRolls_FromZero == 0..MaxDamage

\* A variant with one more face: a hazard can take MaxDamage + 1.
DamageRolls_UpToFour == MinDamage..(MaxDamage + 1)

\* The values random.randint(1, 3) can return.
DamageRolls == MinDamage..MaxDamage

\* The lines describe_current returns for the room at (x, y) when the
\* damage roll is dmg (used for a ghost only).
describe_lines(x, y, dmg) ==
    LET ch == map[y][x]
    IN  <<"Kamu berada di posisi (" \o ToString(x) \o "," \o ToString(y) \o ").">>
        \o (IF <<x, y>> = exit
            THEN <<"Kamu melihat sebuah pintu keluar!">> ELSE <<>>)
        \o (IF ch = None THEN <<>>
            ELSE IF ch.kind = "npc"
            THEN <<icon(ch) \o " Kamu bertemu " \o ch.name \o ". " \o ch.message>>
            ELSE <<icon(ch) \o " " \o ch.name \o " muncul! " \o ch.message,
                   ch.name \o " mengurangi nyawamu sebanyak " \o ToString(dmg)
                       \o ". Nyawa: " \o ToString(health - dmg)>>)

\* Whether describe_current rolls damage in the room at (x, y).
deals_damage(x, y) == map[y][x] # None /\ map[y][x].kind # "npc"

\* Mutant of describe_current: the damage is added to health.
describe_current_Heal(x, y) ==
    IF deals_damage(x, y)
    THEN \E dmg \in MinDamage..MaxDamage :
            /\ health' = health + dmg
            /\ out' = describe_lines(x, y, dmg)
    ELSE /\ health' = health
         /\ out' = describe_lines(x, y, 0)

\* Game.describe_current for the room at (x, y), the player's new position.
describe_current(x, y) ==
    IF deals_damage(x, y)
    THEN \E dmg \in DamageRolls :
            /\ health' = health - dmg
            /\ out' = describe_lines(x, y, dmg)
    ELSE /\ health' = health
         /\ out' = describe_lines(x, y, 0)

MsgUnknownDirection ==
    <<"Arah tidak dikenal. Gunakan 'utara/selatan/timur/barat' atau n/s/e/w.">>
MsgOutOfBounds == <<"Tidak bisa bergerak ke sana (batas ruangan).">>

\* Mutant of move: a successful move does not count a turn.
move_SkipTurn(direction) ==
    LET d == Lower(direction)
    IN  IF d \notin DOMAIN DIRS
        THEN /\ out' = MsgUnknownDirection
             /\ UNCHANGED game
        ELSE LET nx == player_x + DIRS[d][1]
                 ny == player_y + DIRS[d][2]
             IN  IF ~in_bounds(nx, ny)
                 THEN /\ out' = MsgOutOfBounds
                      /\ UNCHANGED game
                 ELSE /\ player_x' = nx
                      /\ player_y' = ny
                      /\ turn' = turn
                      /\ describe_current(nx, ny)
                      /\ UNCHANGED <<size, map, exit>>

\* Mutant of move: the position is assigned before the bounds check and not
\* restored when the check fails.
move_NoRollback(direction) ==
    LET d == Lower(direction)
    IN  IF d \notin DOMAIN DIRS
        THEN /\ out' = MsgUnknownDirection
             /\ UNCHANGED game
        ELSE LET nx == player_x + DIRS[d][1]
                 ny == player_y + DIRS[d][2]
             IN  IF ~in_bounds(nx, ny)
                 THEN /\ out' = MsgOutOfBounds
                      /\ player_x' = nx
                      /\ player_y' = ny
                      /\ UNCHANGED <<size, map, health, exit, turn>>
                 ELSE /\ player_x' = nx
                      /\ player_y' = ny
                      /\ turn' = turn + 1
                      /\ describe_current(nx, ny)
                      /\ UNCHANGED <<size, map, exit>>

\* Mutant of move: DIRS.get(direction, (0, 0)), so that an unknown token is a
\* move that stays in place.
move_DefaultDelta(direction) ==
    LET d == Lower(direction)
        dx == IF d \in DOMAIN DIRS THEN DIRS[d][1] ELSE 0
        dy == IF d \in DOMAIN DIRS THEN DIRS[d][2] ELSE 0
        nx == player_x + dx
        ny == player_y + dy
    IN  IF ~in_bounds(nx, ny)
        THEN /\ out' = MsgOutOfBounds
             /\ UNCHANGED game
        ELSE /\ player_x' = nx
             /\ player_y' = ny
             /\ turn' = turn + 1
             /\ describe_current(nx, ny)
             /\ UNCHANGED <<size, map, exit>>

\* Mutant of move: a blocked move describes the current room again before
\* it reports the bounds.
move_DescribeOnBlock(direction) ==
    LET d == Lower(direction)
    IN  IF d \notin DOMAIN DIRS
        THEN /\ out' = MsgUnknownDirection
             /\ UNCHANGED game
        ELSE LET nx == player_x + DIRS[d][1]
                 ny == player_y + DIRS[d][2]
             IN  IF ~in_bounds(nx, ny)
                 THEN /\ describe_current(player_x, player_y)
                      /\ UNCHANGED <<size, map, player_x, player_y, exit, turn>>
                 ELSE /\ player_x' = nx
                      /\ player_y' = ny
                      /\ turn' = turn + 1
                      /\ describe_current(nx, ny)
                      /\ UNCHANGED <<size, map, exit>>

\* A variant in which the character met on arrival leaves its room.
move_RemoveMet(direction) ==
    LET d == Lower(direction)
    IN  IF d \notin DOMAIN DIRS
        THEN /\ out' = MsgUnknownDirection
             /\ UNCHANGED game
        ELSE LET nx == player_x + DIRS[d][1]
                 ny == player_y + DIRS[d][2]
             IN  IF ~in_bounds(nx, ny)
                 THEN /\ out' = MsgOutOfBounds
                      /\ UNCHANGED game
                 ELSE /\ player_x' = nx
                      /\ player_y' = ny
                      /\ turn' = turn + 1
                      /\ describe_current(nx, ny)
                      /\ map' = [map EXCEPT ![ny][nx] = None]
                      /\ UNCHANGED <<size, exit>>

\* A variant that counts a turn for a move stopped at the grid boundary.
move_CountBlocked(direction) ==
    LET d == Lower(direction)
    IN  IF d \notin DOMAIN DIRS
        THEN /\ out' = MsgUnknownDirection
             /\ UNCHANGED game
        ELSE LET nx == player_x + DIRS[d][1]
                 ny == player_y + DIRS[d][2]
             IN  IF ~in_bounds(nx, ny)
                 THEN /\ out' = MsgOutOfBounds
                      /\ turn' = turn + 1
                      /\ UNCHANGED <<size, map, player_x, player_y, health, exit>>
                 ELSE /\ player_x' = nx
                      /\ player_y' = ny
                      /\ turn' = turn + 1
                      /\ describe_current(nx, ny)
                      /\ UNCHANGED <<size, map, exit>>

\* A variant that looks the token up as it was passed, without lower().
move_CaseSensitive(direction) ==
    LET d == direction
    IN  IF d \notin DOMAIN DIRS
        THEN /\ out' = MsgUnknownDirection
             /\ UNCHANGED game
        ELSE LET nx == player_x + DIRS[d][1]
                 ny == player_y + DIRS[d][2]
             IN  IF ~in_bounds(nx, ny)
                 THEN /\ out' = MsgOutOfBounds
                      /\ UNCHANGED game
                 ELSE /\ player_x' = nx
                      /\ player_y' = ny
                      /\ turn' = turn + 1
                      /\ describe_current(nx, ny)
                      /\ UNCHANGED <<size, map, exit>>

\* Game.move
move(direction) ==
    LET d == Lower(direction)
    IN  IF d \notin DOMAIN DIRS
        THEN /\ out' = MsgUnknownDirection
             /\ UNCHANGED game
        ELSE LET nx == player_x + DIRS[d][1]
                 ny == player_y + DIRS[d][2]
             IN  IF ~in_bounds(nx, ny)
                 THEN /\ out' = MsgOutOfBounds
                      /\ UNCHANGED game
                 ELSE /\ player_x' = nx
                      /\ player_y' = ny
                      /\ turn' = turn + 1
                      /\ describe_current(nx, ny)
                      /\ UNCHANGED <<size, map, exit>>

\* Mutant of Symbol: the exit is tested before the player.
Symbol_ExitFirst(x, y, reveal) ==
    IF <<x, y>> = exit /\ reveal THEN "E"
    ELSE IF <<x, y>> = <<player_x, player_y>> THEN "P"
    ELSE IF map[y][x] # None
    THEN (IF map[y][x].kind = "npc" THEN "N" ELSE "H")
    ELSE "."

\* The symbol print_map appends for cell (x, y).
Symbol(x, y, reveal) ==
    IF <<x, y>> = <<player_x, player_y>> THEN "P"
    ELSE IF <<x, y>> = exit /\ reveal THEN "E"
    ELSE IF map[y][x] # None
    THEN (IF map[y][x].kind = "npc" THEN "N" ELSE "H")
    ELSE "."

\* The rows print_map builds, each the list of its symbols before ' '.join.
MapRows(reveal) ==
    [r \in 1..size |-> [c \in 1..size |-> Symbol(c - 1, r - 1, reveal)]]

\* Game.print_map: the lines of the returned text.
print_map(reveal) == [r \in 1..size |-> JoinSpace(MapRows(reveal)[r])]

(***************************************************************************)
(* The Game object under an arbitrary caller: after construction any       *)
(* method is called in any order with any argument.                        *)
(***************************************************************************)
GameInit == Construct("api", TRUE)

CallMove(direction) ==
    /\ pc = "api"
    /\ turn < MaxTurn
    /\ move(direction)
    /\ pc' = pc
    /\ UNCHANGED args

\* print_map(reveal) and status() compute a text from the fields and assign
\* nothing.
CallPrintMap(reveal) ==
    /\ pc = "api"
    /\ Len(print_map(reveal)) = size
    /\ UNCHANGED vars

CallStatus ==
    /\ pc = "api"
    /\ Len(status) > 0
    /\ UNCHANGED vars

Init == Unbuilt(DefaultSize)

Next ==
    \/ GameInit
    \/ \E direction \in Tokens : CallMove(direction)
    \/ \E reveal \in BOOLEAN : CallPrintMap(reveal)
    \/ CallStatus

Spec == Init /\ [][Next]_vars

(***************************************************************************)
(* main(): the command loop.  A command is the list cmd.strip().split()    *)
(* of its words; the blank line is the empty list.                        *)
(***************************************************************************)
w_pergi == <<"p", "e", "r", "g", "i">>
w_go == <<"g", "o">>
w_lihat == <<"l", "i", "h", "a", "t">>
w_map == <<"m", "a", "p">>
w_status == <<"s", "t", "a", "t", "u", "s">>
w_bantuan == <<"b", "a", "n", "t", "u", "a", "n">>
w_help == <<"h", "e", "l", "p">>
w_keluar == <<"k", "e", "l", "u", "a", "r">>
w_quit == <<"q", "u", "i", "t">>
w_exit == <<"e", "x", "i", "t">>

\* The verbs main() passes to move as they are.
MoveVerbs ==
    {<<"n">>, <<"s">>, <<"e">>, <<"w">>, w_utara, w_selatan, w_timur, w_barat}

\* The commands typed at the prompt.
Commands ==
    {<<>>}
    \cup {<<w_pergi, t>> : t \in {w_utara, w_selatan, w_barat, w_timur, <<"u">>,
                                  <<"W">>, <<"x">>}}
    \cup {<<w_go, w_utara>>, <<<<"P", "e", "r", "g", "i">>, <<"B">>>>,
          <<w_pergi, w_timur, w_utara>>, <<w_pergi>>}
    \cup {<<t>> : t \in MoveVerbs \cup {<<"W">>, <<"b">>}}
    \cup {<<w_lihat>>, <<w_map>>, <<<<"L", "i", "h", "a", "t">>>>, <<w_status>>,
          <<w_bantuan>>, <<w_help>>, <<w_keluar>>, <<w_quit>>, <<w_exit>>}

\* The branch of the if/elif chain of main() that a command takes.
Branch(parts) ==
    IF Len(parts) = 0 THEN "empty"
    ELSE LET verb == Lower(parts[1])
         IN  IF verb \in {w_pergi, w_go} /\ Len(parts) > 1 THEN "go"
             ELSE IF verb \in MoveVerbs THEN "verb"
             ELSE IF verb = w_lihat \/ verb = w_map THEN "look"
             ELSE IF verb = w_status THEN "status"
             ELSE IF verb = w_bantuan \/ verb = w_help THEN "help"
             ELSE IF verb = w_keluar \/ verb = w_quit \/ verb = w_exit
             THEN "quit"
             ELSE "unknown"

\* The branch of every command.
BranchOf == [parts \in Commands |-> Branch(parts)]

\* game = Game(size=3), then the --auto-test demo or the command loop.
MainInit == \E auto_test \in BOOLEAN :
    Construct(IF auto_test THEN "demo" ELSE "loop", TRUE)

\* The --auto-test branch: print_map(reveal=True), status(), move('utara'),
\* status().
MainAutoTest ==
    /\ pc = "demo"
    /\ move(w_utara)
    /\ pc' = "done"
    /\ UNCHANGED args

\* The texts main() prints itself (banner, help, map header, farewell) are
\* not part of the state; out keeps the text of the last move.

\* if not game.is_alive(): ... break
MainLost ==
    /\ pc = "loop"
    /\ ~is_alive
    /\ pc' = "lost"
    /\ UNCHANGED <<game, out>>
    /\ UNCHANGED args

\* if game.is_exit(): ... break
MainWon ==
    /\ pc = "loop"
    /\ is_alive
    /\ is_exit
    /\ pc' = "won"
    /\ UNCHANGED <<game, out>>
    /\ UNCHANGED args

\* The loop reaches input() only past both checks.
Reads == pc = "loop" /\ is_alive /\ ~is_exit

\* input() raises EOFError: the program ends.
MainEndOfInput ==
    /\ Reads
    /\ pc' = "eof"
    /\ UNCHANGED <<game, out>>
    /\ UNCHANGED args

\* if not cmd: continue
MainEmpty(parts) ==
    /\ Reads
    /\ BranchOf[parts] = "empty"
    /\ UNCHANGED vars

\* pergi <arah> / go <arah>: print(game.move(direction))
MainGo(parts) ==
    /\ Reads
    /\ BranchOf[parts] = "go"
    /\ turn < MaxTurn
    /\ move(parts[2])
    /\ pc' = pc
    /\ UNCHANGED args

\* A bare direction: print(game.move(verb))
MainVerb(parts) ==
    /\ Reads
    /\ BranchOf[parts] = "verb"
    /\ turn < MaxTurn
    /\ move(Lower(parts[1]))
    /\ pc' = pc
    /\ UNCHANGED args

\* lihat / map: print(game.print_map(reveal=False))
MainLook(parts) ==
    /\ Reads
    /\ BranchOf[parts] = "look"
    /\ Len(print_map(FALSE)) = size
    /\ UNCHANGED vars

\* status: print(game.status())
MainStatus(parts) ==
    /\ Reads
    /\ BranchOf[parts] = "status"
    /\ Len(status) > 0
    /\ UNCHANGED vars

\* bantuan / help: print_help()
MainHelp(parts) ==
    /\ Reads
    /\ BranchOf[parts] = "help"
    /\ UNCHANGED vars

\* keluar / quit / exit: break
MainQuit(parts) ==
    /\ Reads
    /\ BranchOf[parts] = "quit"
    /\ pc' = "quit"
    /\ UNCHANGED <<game, out>>
    /\ UNCHANGED args

\* else: the unknown-command text
MainUnknown(parts) ==
    /\ Reads
    /\ BranchOf[parts] = "unknown"
    /\ UNCHANGED vars

NextMain ==
    \/ MainInit
    \/ MainAutoTest
    \/ MainLost
    \/ MainWon
    \/ MainEndOfInput
    \/ \E parts \in Commands :
        \/ MainEmpty(parts)
        \/ MainGo(parts)
        \/ MainVerb(parts)
        \/ MainLook(parts)
        \/ MainStatus(parts)
        \/ MainHelp(parts)
        \/ MainQuit(parts)
        \/ MainUnknown(parts)

SpecMain == Init /\ [][NextMain]_vars

(***************************************************************************)
(* Construction alone, for every grid size.                                *)
(***************************************************************************)
InitCtor == \E s \in 2..MaxSize : Unbuilt(s)

CtorInit == Construct("api", FALSE)

NextCtor == CtorInit

SpecCtor == InitCtor /\ [][NextCtor]_vars

(***************************************************************************)
(* Construction alone, for every grid size, with every exit and every      *)
(* assignment of cells to guides and to hazards (shuffle outcomes up to    *)
(* the order of names within a kind).                                      *)
(***************************************************************************)
KindInit == Construct("api", TRUE)

NextKind == KindInit

SpecKind == InitCtor /\ [][NextKind]_vars

(***************************************************************************)
(* A caller of Game.direction_hint: one call on a constructed game, with   *)
(* any two coordinates of the grid.                                        *)
(***************************************************************************)
HintInit == Construct("hint", TRUE)

CallDirectionHint(from_pos, to_pos) ==
    /\ pc = "hint"
    /\ out' = <<direction_hint(from_pos, to_pos)>>
    /\ args' = <<from_pos, to_pos>>
    /\ pc' = "hinted"
    /\ UNCHANGED game

NextHint ==
    \/ HintInit
    \/ \E from_pos \in Cells(size), to_pos \in Cells(size) :
            CallDirectionHint(from_pos, to_pos)

SpecHint == Init /\ [][NextHint]_vars

(***************************************************************************)
(* A player who walks to the exit: from any constructed size-3 game, each   *)
(* command is the move towards the exit, along the column first and then   *)
(* along the row.                                                          *)
(***************************************************************************)
WalkInit == Construct("walk", FALSE)

\* The token of the walker's next command.
TowardExit ==
    IF exit[2] < player_y THEN w_utara
    ELSE IF exit[2] > player_y THEN w_selatan
    ELSE IF exit[1] < player_x THEN w_barat
    ELSE w_timur

WalkStep ==
    /\ pc = "walk"
    /\ ~is_exit
    /\ turn < MaxTurn
    /\ move(TowardExit)
    /\ pc' = pc
    /\ UNCHANGED args

NextWalk ==
    \/ WalkInit
    \/ WalkStep

SpecWalk == Init /\ [][NextWalk]_vars

(***************************************************************************)
(* Properties.                                                             *)
(***************************************************************************)
\* The tokens move recognises, whatever their case.
Recognised == {t \in Tokens : Lower(t) \in DOMAIN DIRS}

\* Every recognised token with its delta, as <<token, delta>>.
RecognisedMoves == {<<t, DIRS[Lower(t)]>> : t \in Recognised}

\* A coordinate inside the grid.
InGrid(x, y) == x \in 0..(size - 1) /\ y \in 0..(size - 1)

\* The occupant of the cell the player stands on.
Here == map[player_y][player_x]

\* The two outcomes C1 allows for a move with token m[1] and delta m[2].
MoveOutcome(m) ==
    LET nx == player_x + m[2][1]
        ny == player_y + m[2][2]
    IN  IF InGrid(nx, ny)
        THEN /\ player_x' = nx
             /\ player_y' = ny
             /\ turn' = turn + 1
             /\ UNCHANGED <<size, map, exit>>
        ELSE /\ UNCHANGED game
             /\ out' = MsgOutOfBounds

\* C1: for every recognised direction token, move either changes the
\* position by exactly that direction's delta and adds exactly 1 to turn
\* (destination inside the grid), or leaves every field unchanged and returns
\* the out-of-bounds message (destination outside the grid): no step with
\* another outcome is a move with that token.
C1_MoveOutcome ==
    [][\A m \in RecognisedMoves : ~MoveOutcome(m) => ~CallMove(m[1])]_vars

\* The example of the specification: exit at (0,0), move("utara") then
\* move("barat") from (1,1) ends on the exit after two turns.
C1_Witness ==
    /\ pc = "api"
    /\ exit = <<0, 0>>
    /\ <<player_x, player_y>> = <<0, 0>>
    /\ turn = 2
    /\ is_exit

\* C2: after construction and any sequence of move calls, with any token,
\* the player coordinates are within [0, size) on both axes.
C2_PlayerInGrid ==
    pc = "api" =>
        /\ 0 <= player_x /\ player_x < size
        /\ 0 <= player_y /\ player_y < size

\* The player stands in a corner and the last move was blocked by the bounds.
C2_Witness ==
    /\ pc = "api"
    /\ <<player_x, player_y>> = <<size - 1, size - 1>>
    /\ out = MsgOutOfBounds

\* C3: no operation of a constructed game leaves health higher than it was.
C3_HealthNonIncreasing == [][pc = "api" => health' <= health]_vars

\* A hazard has dealt damage.
C3_Witness == pc = "api" /\ health < StartHealth /\ turn > 0

\* C4: in the command loop a loss is declared only with health <= 0; once
\* health <= 0 the only step left is declaring the loss, which changes no
\* field, and nothing happens after it.
C4_LossIsTerminal ==
    [][/\ (pc = "loop" /\ health <= 0) => (pc' = "lost" /\ UNCHANGED game)
       /\ pc' = "lost" => (pc = "loop" /\ health <= 0)
       /\ pc # "lost"]_vars

\* The loop has declared the loss.
C4_Witness == pc = "lost" /\ health <= 0 /\ turn > 1

\* C5: in the command loop the victory branch is taken exactly at a step where
\* the player position equals the exit coordinate; it changes no field and
\* nothing happens after it.
C5_WinAtExit ==
    [][/\ pc' = "won" =>
            (pc = "loop" /\ <<player_x, player_y>> = exit /\ UNCHANGED game)
       /\ (pc = "loop" /\ <<player_x, player_y>> = exit) =>
            (pc' = "won" /\ UNCHANGED game)
       /\ pc # "won"]_vars

\* The loop has declared the win.
C5_Witness == pc = "won" /\ <<player_x, player_y>> = exit /\ turn > 0

\* C6: move with a token that matches no known mapping returns the
\* unknown-direction text and changes no field.
C6_UnknownDirection ==
    [][\A direction \in BadTokens \cup {<<>>} :
        CallMove(direction) =>
            (UNCHANGED game /\ out' = MsgUnknownDirection)]_vars

\* An unknown token was answered after a move had succeeded.
C6_Witness == pc = "api" /\ out = MsgUnknownDirection /\ turn > 0

\* C7: a move whose destination lies outside the grid keeps position, turn
\* and health, also when the player stands on a hazard, and returns the
\* bounds text.
C7_OutOfBounds ==
    [][\A m \in RecognisedMoves :
        (/\ ~InGrid(player_x + m[2][1], player_y + m[2][2])
         /\ CallMove(m[1]))
            => /\ <<player_x', player_y'>> = <<player_x, player_y>>
               /\ turn' = turn
               /\ health' = health
               /\ out' = MsgOutOfBounds]_vars

\* A move was blocked while the player stood on a hazard.
C7_Witness ==
    /\ pc = "api"
    /\ Here.kind = "ghost"
    /\ out = MsgOutOfBounds
    /\ health > 0

\* C8: for every size >= 2 and every random choice, the exit of a
\* constructed game is on the perimeter and is not the player's start
\* (size // 2, size // 2).
C8_ExitOnPerimeter ==
    pc # "new" =>
        /\ exit[1] = 0 \/ exit[2] = 0 \/ exit[1] = size - 1 \/ exit[2] = size - 1
        /\ exit # <<size \div 2, size \div 2>>
        /\ InGrid(exit[1], exit[2])

\* A game of size 2, where the start cell itself is on the perimeter.
C8_Witness == pc # "new" /\ size = 2 /\ exit = <<0, 1>>

\* C9: a successful move (the only step of a constructed game that counts a
\* turn) onto a hazard cell lowers health by 1, 2 or 3, on every visit; a
\* successful move onto a guide or an empty cell keeps health.
C9_EncounterDamage ==
    [][(pc = "api" /\ turn' = turn + 1) =>
            IF map[player_y'][player_x'].kind = "ghost"
            THEN health - health' \in 1..3
            ELSE health' = health]_vars

\* A second visit to the same hazard: after three moves the player stands on
\* the hazard at (1,0), the other hazard at (0,2) is out of reach of any
\* three-move walk ending here, and health shows two hits.
C9_Witness ==
    /\ pc = "api"
    /\ turn = 3
    /\ <<player_x, player_y>> = <<1, 0>>
    /\ Here.kind = "ghost"
    /\ map[2][0].kind = "ghost"
    /\ health = StartHealth - 2

\* The cells of a rendering that show the symbol sym, as (x, y).
Showing(rows, sym) ==
    {<<c - 1, r - 1>> : <<r, c>> \in
        {q \in (1..Len(rows)) \X (1..size) : rows[q[1]][q[2]] = sym}}

\* C10: for both values of reveal the rendering has size rows of size
\* symbols, shows 'P' exactly at the player position, and shows 'E' at most
\* once: only when reveal is true, only at the exit, and not when the player
\* stands on the exit.
C10_MapRendering ==
    pc = "api" =>
        \A reveal \in BOOLEAN :
            LET rows == MapRows(reveal)
                text == print_map(reveal)
            IN  /\ Len(rows) = size
                /\ \A r \in 1..Len(rows) : Len(rows[r]) = size
                /\ Len(text) = size
                /\ \A r \in 1..Len(text) : Len(text[r]) = 2 * size - 1
                /\ Showing(rows, "P") = {<<player_x, player_y>>}
                /\ Showing(rows, "E") \subseteq {exit}
                /\ ~reveal => Showing(rows, "E") = {}
                /\ <<player_x, player_y>> = exit => Showing(rows, "E") = {}

\* The player stands on the exit, where 'P' and 'E' compete.
C10_Witness ==
    /\ pc = "api"
    /\ <<player_x, player_y>> = exit
    /\ MapRows(TRUE)[player_y + 1][player_x + 1] = "P"

\* The compass string C11 states for the deltas dx and dy.
StatedHint(dx, dy) ==
    LET v == IF dy < 0 THEN "utara" ELSE IF dy > 0 THEN "selatan" ELSE ""
        h == IF dx < 0 THEN "barat" ELSE IF dx > 0 THEN "timur" ELSE ""
    IN  IF dx = 0 /\ dy = 0 THEN "di sekitar sini"
        ELSE IF dy = 0 THEN h
        ELSE IF dx = 0 THEN v
        ELSE v \o " " \o h

\* C11: direction_hint(from, to) returns the vertical term (utara for dy < 0,
\* selatan for dy > 0) followed by the horizontal term (barat for dx < 0,
\* timur for dx > 0) joined by one space, returns "di sekitar sini" exactly
\* when both deltas are zero, and gives "utara barat" for (1,1) -> (0,0).
C11_DirectionHint ==
    pc = "hinted" =>
        LET dx == args[2][1] - args[1][1]
            dy == args[2][2] - args[1][2]
        IN  /\ out = <<StatedHint(dx, dy)>>
            /\ (out = <<"di sekitar sini">>) <=> (dx = 0 /\ dy = 0)
            /\ args = <<(<<1, 1>>), (<<0, 0>>)>> => out = <<"utara barat">>

C11_Witness ==
    /\ pc = "hinted"
    /\ args = <<(<<1, 1>>), (<<0, 0>>)>>
    /\ out = <<"utara barat">>

\* The four delta vectors and the synonyms C12 names for each of them.
FourDeltas == {<<0, -1>>, <<0, 1>>, <<-1, 0>>, <<1, 0>>}
Synonyms ==
    {{w_utara, <<"u">>, <<"n">>}, {w_selatan, <<"s">>},
     {w_barat, <<"b">>, <<"w">>}, {w_timur, <<"t">>, <<"e">>}}

\* The table half of C12: the accepted tokens are the synonyms, they map onto
\* exactly the four deltas, and synonyms of one direction share their delta.
NormalisationTable ==
    /\ DOMAIN DIRS = UNION Synonyms
    /\ {m[2] : m \in RecognisedMoves} = FourDeltas
    /\ \A g \in Synonyms : \A a \in g, b \in g : DIRS[a] = DIRS[b]
    /\ \A g \in Synonyms, h \in Synonyms :
            g # h => \A a \in g, b \in h : DIRS[a] # DIRS[b]

\* C12: every accepted token resolves to one of (0,-1), (0,1), (-1,0), (1,0),
\* synonyms of one cardinal direction resolve to the same delta, and a step is
\* a move with an upper- or mixed-case token exactly when it is a move with
\* the lower-case token.
C12_Normalisation ==
    [][/\ NormalisationTable
       /\ \A t \in CaseVariants : CallMove(t) <=> CallMove(Lower(t))]_vars

C12_Witness ==
    /\ pc = "api"
    /\ CaseVariants \subseteq Recognised \ DOMAIN DIRS
    /\ turn = 1
    /\ <<player_x, player_y>> = <<0, 1>>

\* C13: construction sets turn to 0, and every later step of the caller adds
\* one to turn when it changes the position and leaves turn alone otherwise,
\* so turn counts the position-changing moves and never decreases.
C13_TurnCount ==
    [][/\ pc = "new" => turn' = 0
       /\ pc = "api" =>
            turn' = IF <<player_x', player_y'>> # <<player_x, player_y>>
                    THEN turn + 1 ELSE turn
       /\ turn' >= turn /\ turn' >= 0]_vars

\* Two moves changed the position and a third, stopped at the boundary or
\* unrecognised, did not.
C13_Witness ==
    /\ pc = "api"
    /\ turn = 2
    /\ out \in {MsgOutOfBounds, MsgUnknownDirection}

\* The coordinates whose cell holds a character of the given kind.
Occupied(kind) == {c \in Cells(size) : map[c[2]][c[1]].kind = kind}

\* The coordinates whose cell holds the character of the given name.
Holding(name) == {c \in Cells(size) : map[c[2]][c[1]].name = name}

Min(a, b) == IF a < b THEN a ELSE b

\* The coordinates whose cell holds a character.
Peopled == {c \in Cells(size) : map[c[2]][c[1]] # None}

\* The first k entries of a list of names, as a set.
FirstNames(names, k) == {names[i] : i \in 1..k}

\* C14: after construction, for every shuffle outcome, neither the start cell
\* nor the exit cell holds a character, no placement overwrote another, and
\* min(5, size*size - 2) characters are placed, the guide names first and in
\* order, then the hazard names (3 guides and 2 hazards for size 3).
C14_Placement ==
    pc = "api" =>
        LET n == Min(5, size * size - 2)
            guides == Min(3, n)
            hazards == n - guides
            placed == Peopled
        IN  /\ StartPos(size) \notin placed
            /\ exit \notin placed
            /\ Cardinality(placed) = n
            /\ {map[c[2]][c[1]].name : c \in placed}
                   = FirstNames(npc_names, guides)
                        \cup FirstNames(ghost_names, hazards)
            /\ \A c \in placed :
                    map[c[2]][c[1]].kind =
                        IF map[c[2]][c[1]].name \in FirstNames(npc_names, guides)
                        THEN "npc" ELSE "ghost"
            /\ guides + hazards
                   = Cardinality(FirstNames(npc_names, guides)
                                    \cup FirstNames(ghost_names, hazards))
            /\ size = 3 => guides = 3 /\ hazards = 2

\* A size-2 game: the two free cells went to the first two guides and the
\* coordinates ran out before the third guide and the hazards.
C14_Witness ==
    /\ pc = "api"
    /\ size = 2
    /\ Cardinality(Occupied("npc")) = 2
    /\ Occupied("ghost") = {}
    /\ Holding(npc_names[3]) = {}

\* C15: once the game is constructed, every step of its caller (a move that
\* succeeds, is stopped at the boundary or is not recognised, print_map,
\* status) leaves the exit, the size and every cell's occupant unchanged.
C15_GridFrozen ==
    [][pc # "new" => (exit' = exit /\ size' = size /\ map' = map)]_vars

\* After three moves the player has just arrived in a room whose character
\* is described in the returned text and is still in the room.
C15_Witness ==
    /\ pc = "api"
    /\ turn = 3
    /\ Here # None
    /\ Len(out) >= 2
    /\ out = describe_lines(player_x, player_y, 0)

\* C16: in every state of the command loop the exit cell holds no character,
\* the player standing on the exit has health > 0, the loop never ends as
\* lost with the player on the exit, and it ends as won only with health > 0.
C16_WinLossExclusive ==
    pc # "new" =>
        /\ map[exit[2]][exit[1]] = None
        /\ is_exit => health > 0
        /\ pc = "lost" => ~is_exit
        /\ pc = "won" => is_exit /\ is_alive

\* A win right after the heaviest hit: the hazard next to a corner exit took
\* 3, and the step onto the exit took nothing.
C16_Witness ==
    /\ pc = "won"
    /\ is_exit
    /\ turn = 2
    /\ health = StartHealth - MaxDamage

\* C17: in a size-3 game, whatever the exit, the placement and the damage
\* rolls, the walk towards the exit is a sequence of at most two moves, each
\* of which succeeds, that ends on the exit with health >= 2.
C17_Winnable ==
    pc = "walk" =>
        /\ size = 3
        /\ turn <= 2
        /\ turn = 2 => is_exit
        /\ is_exit => health >= 2
        /\ ~is_exit => ENABLED (WalkStep /\ turn' = turn + 1)

\* The longest walk with the worst roll: a corner exit reached in two moves
\* through a hazard that took 3.
C17_Witness ==
    /\ pc = "walk"
    /\ is_exit
    /\ turn = 2
    /\ health = 2

\* C18: in every state of the command loop health is within -2..5: it is 5
\* before the first accepted move and each accepted move removes at most 3.
C18_HealthRange ==
    pc # "new" =>
        /\ health >= -2
        /\ health <= 5
        /\ turn = 0 => health = 5
        /\ health >= 5 - 3 * turn

\* The lowest health: the loop read a command at health 1 and a hazard took 3.
C18_Witness ==
    /\ pc = "lost"
    /\ health = -2
    /\ turn = 3

Sign(n) == IF n < 0 THEN -1 ELSE IF n > 0 THEN 1 ELSE 0

\* The guide message C19 states for each pair of signs of (exit - guide).
StatedGuideMessage ==
    [sx \in -1..1, sy \in -1..1 |->
        "Petunjuk: arah keluar kira-kira ke " \o StatedHint(sx, sy) \o "."]

\* C19: in a constructed game no guide stands on the exit, and every guide's
\* message carries the compass string whose vertical and horizontal terms
\* match the signs of (exit - guide position), never "di sekitar sini".
C19_GuideHints ==
    pc = "api" =>
        \A c \in Cells(size) :
            map[c[2]][c[1]].kind = "npc" =>
                /\ c # exit
                /\ map[c[2]][c[1]].message =
                       StatedGuideMessage[Sign(exit[1] - c[1]), Sign(exit[2] - c[2])]
                /\ map[c[2]][c[1]].message # StatedGuideMessage[0, 0]
                /\ StatedGuideMessage[0, 0] =
                       "Petunjuk: arah keluar kira-kira ke di sekitar sini."

\* A guide diagonally opposite a corner exit: both terms appear in its hint.
C19_Witness ==
    /\ pc = "api"
    /\ size = 3
    /\ exit = <<0, 0>>
    /\ map[2][2].kind = "npc"
    /\ map[2][2].message = "Petunjuk: arah keluar kira-kira ke utara barat."

====
